---- MODULE Spec2Model ----
(***************************************************************************)
(* The inference pipeline of ppgs (src/ppgs/core.py) and the cached        *)
(* EnCodec preprocessing (src/ppgs/preprocess/encodec.py).                 *)
(*                                                                         *)
(* Python function attributes (from_audio.model, from_audio.checkpoint,    *)
(* from_audio.gpu, from_audios.resampler, ...) are the process state.      *)
(* A torch module is an object mutated in place: load_state_dict copies    *)
(* tensors into it and model.to(device) returns the same object.           *)
(***************************************************************************)
EXTENDS Integers, Sequences, FiniteSets, TLC

\* ------------------------------------------------------------------ bounds
MaxCalls == 3          \* from_audio calls in a behaviour of Spec
MaxFiles == 3          \* longest path list given to from_files_to_files
MaxResamples == 3      \* resampling calls in a behaviour of SpecResample
MaxThreadCalls == 2    \* from_audio calls of each thread in SpecConc

\* ------------------------------------------------------------- the values
None == "None"
\* hasattr(f, name) is False: the function attribute was never assigned
Unset == "<unset>"

\* the gpu argument: None (cpu) or a device index; index 1 is not installed
Gpus == {None, "0", "1"}
InstalledGpus == {"0"}

\* torch.device('cpu' if gpu is None else f'cuda:{gpu}')
Device(gpu) == IF gpu = None THEN "cpu" ELSE "cuda:" \o gpu

\* the module objects a caller can pass: ppgs.MODEL (the default) or its own
DefaultModel == "ppgs.MODEL"
Models == {DefaultModel, "caller.model"}
ModelArgs == {None, "caller.model"}

\* parameter names are dotted paths, kept as sequences of components
Params == {<<"w">>, <<"b">>}
ParamShape == "shape"
DdpPrefix == "module"

Tensor(shape, val) == [shape |-> shape, val |-> val]

Checkpoints == {"a.pt", "d.pt", "u.pt", "s.pt"}

\* torch.load(checkpoint, map_location='cpu')['model']:
\*   a.pt  saved from a single-device model (the model's own names)
\*   d.pt  saved from a DistributedDataParallel wrapper (module.<name>)
\*   u.pt  names unrelated to the model
\*   s.pt  the model's names, but the tensor of w has another shape
TorchLoad(checkpoint) ==
    CASE checkpoint = "a.pt" ->
           (<<"w">> :> Tensor(ParamShape, "a")) @@ (<<"b">> :> Tensor(ParamShape, "a"))
      [] checkpoint = "d.pt" ->
           (<<DdpPrefix, "w">> :> Tensor(ParamShape, "d"))
           @@ (<<DdpPrefix, "b">> :> Tensor(ParamShape, "d"))
      [] checkpoint = "u.pt" ->
           (<<"x">> :> Tensor(ParamShape, "u"))
      [] checkpoint = "s.pt" ->
           (<<"w">> :> Tensor("other", "s")) @@ (<<"b">> :> Tensor(ParamShape, "s"))

\* ------------------------------------------------------------------ errors
NoError == [type |-> None, problems |-> {}, context |-> {}]

\* an exception: its type, what it reports, and (Python's implicit chaining)
\* what the exception being handled when it was raised reported
Raise(type, problems, context) ==
    [type |-> type, problems |-> problems, context |-> context]

KeyProblems == {"missing_keys", "unexpected_keys"}

\* nn.Module.load_state_dict(state_dict), strict: every tensor whose name and
\* shape match is copied into the module in place; then, if any name was
\* missing or unexpected or any shape differed, RuntimeError is raised.
load_state_dict(w, state_dict) ==
    LET present  == Params \cap DOMAIN state_dict
        missing  == Params \ DOMAIN state_dict
        extra    == DOMAIN state_dict \ Params
        mismatch == {k \in present : state_dict[k].shape # ParamShape}
        copied   == present \ mismatch
        problems == (IF missing # {} THEN {"missing_keys"} ELSE {})
                    \cup (IF extra # {} THEN {"unexpected_keys"} ELSE {})
                    \cup (IF mismatch # {} THEN {"size_mismatch"} ELSE {})
    IN  [weights  |-> [k \in Params |-> IF k \in copied THEN state_dict[k].val ELSE w[k]],
         problems |-> problems]

\* ppgs.load.ddp_to_single_state_dict: drops the DistributedDataParallel
\* prefix from every parameter name that carries it
StripPrefix(k) == IF Len(k) > 1 /\ Head(k) = DdpPrefix THEN Tail(k) ELSE k

ddp_to_single_state_dict(state_dict) ==
    LET keys == {StripPrefix(k) : k \in DOMAIN state_dict}
    IN  [n \in keys |->
            state_dict[CHOOSE k \in DOMAIN state_dict : StripPrefix(k) = n]]

\* ------------------------------------------------------ from_audio (core.py)
\* The process state a call works on: the three attributes of from_audio and,
\* per module object, its parameter values and the device it resides on.
InitWeights == [k \in Params |-> "init"]

InitProc ==
    [model      |-> Unset,
     checkpoint |-> Unset,
     gpu        |-> Unset,
     weights    |-> [m \in Models |-> InitWeights],
     device     |-> [m \in Models |-> Device(None)]]

\* the audio tensors a caller can pass; feature extraction rejects "nofeat",
\* the network's forward pass rejects the features of "nofwd"
Audios == {"x", "y", "nofeat", "nofwd"}

NoResult == [audio |-> None, weights |-> InitWeights, device |-> Device(None)]

\* if model is None: model = ppgs.MODEL
ResolveModel(model) == IF model = None THEN DefaultModel ELSE model

\* (mutant) the cache test forgets the gpu
CacheCheckNoGpu(proc, checkpoint, gpu) ==
    IF proc.model = Unset THEN "miss"
    ELSE IF proc.checkpoint = Unset THEN "AttributeError"
    ELSE IF proc.checkpoint # checkpoint THEN "miss"
    ELSE "hit"

\* the condition of the cache test, evaluated left to right with short
\* circuit; reading an attribute that was never assigned raises AttributeError
CacheCheck(proc, checkpoint, gpu) ==
    IF proc.model = Unset THEN "miss"
    ELSE IF proc.checkpoint = Unset THEN "AttributeError"
    ELSE IF proc.checkpoint # checkpoint THEN "miss"
    ELSE IF proc.gpu = Unset THEN "AttributeError"
    ELSE IF proc.gpu # gpu THEN "miss"
    ELSE "hit"

\* the outcome of the binding, given what the first attempt and the attempt
\* in the handler of RuntimeError did
Bound(first, retry, retried) ==
    IF first.problems = {}
    THEN [weights |-> first.weights,
          events  |-> <<"torch.load", "load_state_dict">>,
          first   |-> first.problems,
          error   |-> NoError]
    ELSE [weights |-> retry.weights,
          first   |-> first.problems,
          events  |-> <<"torch.load", "load_state_dict">> \o retried,
          error   |-> IF retry.problems = {} THEN NoError
                      ELSE Raise("RuntimeError", retry.problems, first.problems)]

\* (mutant) the handler retries the binding without the remap
RebindNoRemap(first, state_dict) ==
    Bound(first, load_state_dict(first.weights, state_dict), <<"load_state_dict">>)

\* except RuntimeError: remap the names, bind again
Rebind(first, state_dict) ==
    Bound(first,
          load_state_dict(first.weights, ddp_to_single_state_dict(state_dict)),
          <<"ddp_to_single_state_dict", "load_state_dict">>)

\* torch.load, then load_state_dict with the handler of RuntimeError around it
Bind(w, checkpoint) ==
    Rebind(load_state_dict(w, TorchLoad(checkpoint)), TorchLoad(checkpoint))

\* model.to(device): moves the module in place, or fails for a missing device
CanPlace(gpu) == gpu = None \/ gpu \in InstalledGpus

\* (mutant) the entry is stored without its gpu
StoreNoGpu(proc, model, checkpoint, gpu) ==
    [proc EXCEPT !.model = model, !.checkpoint = checkpoint]

\* the three assignments that replace the cache entry
Store(proc, model, checkpoint, gpu) ==
    [proc EXCEPT !.model = model, !.checkpoint = checkpoint, !.gpu = gpu]

\* device placement and the replacement of the cache entry, after binding b
Place(proc, model, checkpoint, gpu, b) ==
    IF b.error # NoError
    THEN [proc   |-> [proc EXCEPT !.weights[model] = b.weights],
          events |-> b.events, first |-> b.first, error |-> b.error]
    ELSE IF ~CanPlace(gpu)
    THEN [proc   |-> [proc EXCEPT !.weights[model] = b.weights],
          events |-> b.events \o <<"model.to">>,
          first  |-> b.first,
          error  |-> Raise("RuntimeError", {"cuda_unavailable"}, {})]
    ELSE [proc   |-> Store([proc EXCEPT !.weights[model] = b.weights,
                                        !.device[model] = Device(gpu)],
                           model, checkpoint, gpu),
          events |-> b.events \o <<"model.to", "store">>,
          first  |-> b.first,
          error  |-> NoError]

\* the body of the cache test: load, bind, place, store
Construct(proc, model, checkpoint, gpu) ==
    Place(proc, model, checkpoint, gpu, Bind(proc.weights[model], checkpoint))

\* ppgs.preprocess.from_audio, then from_audio.model(features)
Infer(proc, audio) ==
    IF audio = "nofeat"
    THEN [events |-> <<"preprocess">>,
          error  |-> Raise("Error", {"preprocess"}, {}),
          result |-> NoResult]
    ELSE IF audio = "nofwd"
    THEN [events |-> <<"preprocess", "forward">>,
          error  |-> Raise("Error", {"forward"}, {}),
          result |-> NoResult]
    ELSE [events |-> <<"preprocess", "forward">>,
          error  |-> NoError,
          result |-> [audio   |-> audio,
                      weights |-> proc.weights[proc.model],
                      device  |-> proc.device[proc.model]]]

\* the cache test and what it leads to
Acquire(proc, model, checkpoint, gpu) ==
    CASE CacheCheck(proc, checkpoint, gpu) = "hit" ->
           [proc |-> proc, events |-> <<>>, first |-> {}, error |-> NoError]
      [] CacheCheck(proc, checkpoint, gpu) = "AttributeError" ->
           [proc |-> proc, events |-> <<>>, first |-> {},
            error |-> Raise("AttributeError", {"attribute"}, {})]
      [] OTHER -> Construct(proc, model, checkpoint, gpu)

\* the call's outcome from the outcome c of the cache block and f of inference
Outcome(c, f) ==
    IF c.error # NoError
    THEN [proc |-> c.proc, events |-> c.events, error |-> c.error,
          first |-> c.first, result |-> NoResult, used |-> None]
    ELSE [proc |-> c.proc, events |-> c.events \o f.events, error |-> f.error,
          first |-> c.first, result |-> f.result,
          used |-> IF f.events = <<"preprocess", "forward">>
                   THEN c.proc.model ELSE None]

Continue(c, audio) == Outcome(c, Infer(c.proc, audio))

\* one whole call of from_audio: the state it leaves, what it did in order,
\* the exception that left it (or NoError), the tensor it returned, the
\* module object the forward pass ran on, and what the first binding reported
from_audio(proc, audio, model, checkpoint, gpu) ==
    Continue(Acquire(proc, ResolveModel(model), checkpoint, gpu), audio)

\* ------------------------------------------- files and batches (core.py)
\* a path is <<stem, suffix>>; pathlib's with_suffix replaces the suffix
with_suffix(file, suffix) == <<file[1], suffix>>

AudioFiles ==
    {<<"x", ".wav">>, <<"y", ".wav">>, <<"unreadable", ".wav">>,
     <<"nofeat", ".wav">>, <<"nofwd", ".wav">>}
OutputFiles == {<<"p", ".pt">>, <<"q", ".pt">>}

\* ppgs.load.audio(file): the samples of the file, or an error for a file
\* that cannot be read
load_audio(file) ==
    IF file[1] = "unreadable"
    THEN [audio |-> None, error |-> Raise("AudioLoadError", {"audio"}, {})]
    ELSE [audio |-> file[1], error |-> NoError]

\* what from_file passes on of the outcome r of from_audio
Loaded(r) ==
    [proc |-> r.proc, events |-> <<"load.audio">> \o r.events,
     error |-> r.error, result |-> r.result]

FromLoaded(proc, a, checkpoint, gpu) ==
    IF a.error # NoError
    THEN [proc |-> proc, events |-> <<"load.audio">>, error |-> a.error,
          result |-> NoResult]
    ELSE Loaded(from_audio(proc, a.audio, None, checkpoint, gpu))

\* from_file: load the audio, then from_audio with the default model
from_file(proc, file, checkpoint, gpu) ==
    FromLoaded(proc, load_audio(file), checkpoint, gpu)

\* result.detach().cpu(), then torch.save(result, output_file)
Save(disk, output_file, r) ==
    IF r.error # NoError
    THEN [proc |-> r.proc, disk |-> disk, events |-> r.events, error |-> r.error]
    ELSE [proc   |-> r.proc,
          disk   |-> [f \in DOMAIN disk \cup {output_file} |->
                         IF f = output_file
                         THEN [r.result EXCEPT !.device = Device(None)]
                         ELSE disk[f]],
          events |-> r.events \o <<"torch.save">>,
          error  |-> NoError]

\* from_file_to_file: from_file(...).detach().cpu(), then torch.save
from_file_to_file(proc, disk, audio_file, output_file, checkpoint, gpu) ==
    Save(disk, output_file, from_file(proc, audio_file, checkpoint, gpu))

Min(a, b) == IF a <= b THEN a ELSE b

\* (mutant) the outputs are taken from the end of their list
ZipMisaligned(audio_files, output_files) ==
    [i \in 1..Min(Len(audio_files), Len(output_files)) |->
        <<audio_files[i], output_files[Len(output_files) + 1 - i]>>]

\* zip(audio_files, output_files): pairs by position, as long as the shorter
Zip(audio_files, output_files) ==
    [i \in 1..Min(Len(audio_files), Len(output_files)) |->
        <<audio_files[i], output_files[i]>>]

\* the state of the run after pair i ended with outcome r
After(st, pairs, i, r, error) ==
    [proc  |-> r.proc,
     disk  |-> r.disk,
     steps |-> Append(st.steps,
                      [pos |-> i, input |-> pairs[i][1], output |-> pairs[i][2],
                       events |-> r.events, error |-> r.error]),
     error |-> error]

RECURSIVE RunPairs(_, _, _, _, _)

\* (mutant) the loop goes on after a pair that raised and reports the first error
NextPairAnyway(st, pairs, i, checkpoint, gpu, r) ==
    RunPairs(After(st, pairs, i, r, IF st.error # NoError THEN st.error ELSE r.error),
             pairs, i + 1, checkpoint, gpu)

\* an exception leaves the loop and the function; otherwise the next pair
NextPair(st, pairs, i, checkpoint, gpu, r) ==
    IF r.error # NoError
    THEN After(st, pairs, i, r, r.error)
    ELSE RunPairs(After(st, pairs, i, r, NoError), pairs, i + 1, checkpoint, gpu)

\* the loop over the pairs
RunPairs(st, pairs, i, checkpoint, gpu) ==
    IF i > Len(pairs) THEN st
    ELSE NextPair(st, pairs, i, checkpoint, gpu,
                  from_file_to_file(st.proc, st.disk, pairs[i][1], pairs[i][2],
                                    checkpoint, gpu))

\* from_files_to_files; explicit is FALSE when output_files is None
from_files_to_files(proc, disk, audio_files, explicit, output_files, checkpoint, gpu) ==
    LET outs == IF explicit THEN output_files
                ELSE [i \in DOMAIN audio_files |-> with_suffix(audio_files[i], ".pt")]
    IN  RunPairs([proc |-> proc, disk |-> disk, steps |-> <<>>, error |-> NoError],
                 Zip(audio_files, outs), 1, checkpoint, gpu)

\* ------------------------------------------------------------- resampling
Rates == {16000, 24000, 44100}

\* the rate EnCodec takes: Resample(orig_freq=sample_rate, new_freq=24000)
EncodecRate == 24000

\* attributes of from_audios that were never assigned
NoRate == 0
NoTransform == [orig_freq |-> NoRate, new_freq |-> NoRate, device |-> Unset]

\* torchaudio.transforms.Resample(orig_freq, new_freq): built on the cpu; it
\* holds an interpolation kernel (a buffer) unless the two rates are equal
Transform(orig_freq, new_freq) ==
    [orig_freq |-> orig_freq, new_freq |-> new_freq, device |-> Device(None)]
HasKernel(t) == t.orig_freq # t.new_freq

\* resampler(audio): the kernel and the audio must be on one device; the
\* samples are read as being at orig_freq, whatever rate they really have
Apply(t, audio) ==
    IF HasKernel(t) /\ t.device # audio.device
    THEN [audio |-> audio, error |-> Raise("RuntimeError", {"device_mismatch"}, {})]
    ELSE [audio |-> [audio EXCEPT !.rate = t.new_freq, !.through = t.orig_freq],
          error |-> NoError]

\* an audio tensor: the rate of its samples, where it is, and the orig_freq
\* of the transform it went through (NoRate: none)
Audio(rate, device) == [rate |-> rate, device |-> device, through |-> NoRate]

\* core.resample(audio, sample_rate, target_rate)
resample(audio, sample_rate, target_rate) ==
    IF sample_rate = target_rate
    THEN [audio |-> audio, events |-> <<>>, error |-> NoError]
    ELSE LET t == [Transform(sample_rate, target_rate) EXCEPT !.device = audio.device]
             a == Apply(t, audio)
         IN  [audio |-> a.audio, events |-> <<"Resample", "resampler">>,
              error |-> a.error]

InitEnc ==
    [sample_rate |-> NoRate, resampler |-> NoTransform, model |-> Unset]

\* the test of the resampler cache
ResamplerMiss(enc, sample_rate) ==
    \/ enc.resampler = NoTransform
    \/ sample_rate # enc.sample_rate

\* the "Cache resampler" block: the rate is recorded first, then the
\* transform is built and moved; moving a kernel to a missing device raises
\* and leaves from_audios.resampler as it was
CacheResampler(enc, sample_rate, gpu) ==
    LET t == Transform(sample_rate, EncodecRate)
    IN  IF ~ResamplerMiss(enc, sample_rate)
        THEN [enc |-> enc, events |-> <<>>, error |-> NoError]
        ELSE IF HasKernel(t) /\ ~CanPlace(gpu)
        THEN [enc    |-> [enc EXCEPT !.sample_rate = sample_rate],
              events |-> <<"Resample">>,
              error  |-> Raise("RuntimeError", {"cuda_unavailable"}, {})]
        ELSE [enc    |-> [enc EXCEPT !.sample_rate = sample_rate,
                                     !.resampler = [t EXCEPT !.device = Device(gpu)]],
              events |-> <<"Resample">>,
              error  |-> NoError]

\* the "Cache model" block: the model is assigned, then moved in place
CacheModel(enc, gpu) ==
    IF enc.model # Unset
    THEN [enc |-> enc, events |-> <<>>, error |-> NoError]
    ELSE IF ~CanPlace(gpu)
    THEN [enc    |-> [enc EXCEPT !.model = Device(None)],
          events |-> <<"EncodecModel">>,
          error  |-> Raise("RuntimeError", {"cuda_unavailable"}, {})]
    ELSE [enc    |-> [enc EXCEPT !.model = Device(gpu)],
          events |-> <<"EncodecModel">>,
          error  |-> NoError]

\* audio.to(device), the resampler, then the encoder
Encode(enc, audio, gpu) ==
    LET moved == [audio EXCEPT !.device = Device(gpu)]
        a     == Apply(enc.resampler, moved)
    IN  IF ~CanPlace(gpu)
        THEN [audio |-> audio, events |-> <<"audio.to">>,
              error |-> Raise("RuntimeError", {"cuda_unavailable"}, {})]
        ELSE IF a.error # NoError
        THEN [audio |-> moved, events |-> <<"audio.to", "resampler">>,
              error |-> a.error]
        ELSE IF enc.model # Device(gpu)
        THEN [audio |-> a.audio, events |-> <<"audio.to", "resampler", "encode">>,
              error |-> Raise("RuntimeError", {"device_mismatch"}, {})]
        ELSE [audio |-> a.audio, events |-> <<"audio.to", "resampler", "encode">>,
              error |-> NoError]

\* encodec.from_audios(audio, lengths, sample_rate, gpu)
from_audios(enc, audio, sample_rate, gpu) ==
    LET r == CacheResampler(enc, sample_rate, gpu)
        m == CacheModel(r.enc, gpu)
        c == Encode(m.enc, audio, gpu)
    IN  IF r.error # NoError
        THEN [enc |-> r.enc, audio |-> audio, events |-> r.events, error |-> r.error]
        ELSE IF m.error # NoError
        THEN [enc |-> m.enc, audio |-> audio, events |-> r.events \o m.events,
              error |-> m.error]
        ELSE [enc |-> m.enc, audio |-> c.audio,
              events |-> r.events \o m.events \o c.events, error |-> c.error]

\* ------------------------------------------------------------------- state
VARIABLES
    proc,   \* from_audio.model/.checkpoint/.gpu and the module objects
    last,   \* the call that returned last: arguments, steps, outcome
    hist,   \* per (checkpoint, gpu): calls seen and constructions run
    disk,   \* the tensor files written: path -> saved tensor
    batch,  \* the from_files_to_files run of this process, once it returned
    enc,    \* from_audios.sample_rate/.resampler/.model (encodec.py)
    rs,     \* the resampling call that returned last, and how many were made
    th,     \* per thread: where it is in from_audio, and its arguments
    cc      \* what the threads did to the cache so far

vars == <<proc, last, hist, disk, batch, enc, rs, th, cc>>

Identities == Checkpoints \X Gpus

CacheKey(p) == [model |-> p.model, checkpoint |-> p.checkpoint, gpu |-> p.gpu]

NoCall ==
    [op |-> None, audio |-> None, model |-> None, checkpoint |-> None, gpu |-> None,
     pre |-> CacheKey(InitProc), events |-> <<>>, first |-> {},
     error |-> NoError, result |-> NoResult, used |-> None]

\* counters per identity are kept for the identities seen only
Get(f, id) == IF id \in DOMAIN f THEN f[id] ELSE 0
Add(f, id, n) == [x \in DOMAIN f \cup {id} |-> Get(f, x) + (IF x = id THEN n ELSE 0)]

InitHist ==
    [calls     |-> 0,
     seen      |-> <<>>,
     failed    |-> {},
     served    |-> {},
     runs      |-> <<>>,
     completed |-> <<>>,
     changes   |-> <<>>,
     current   |-> <<Unset, Unset>>,
     instance  |-> Unset]

NoBatch ==
    [op |-> None, audio_files |-> <<>>, explicit |-> FALSE, output_files |-> <<>>,
     checkpoint |-> None, gpu |-> None, steps |-> <<>>, error |-> NoError]

NoResample ==
    [calls |-> 0, op |-> None, sample_rate |-> NoRate, target_rate |-> NoRate,
     gpu |-> None, pre |-> InitEnc, events |-> <<>>, error |-> NoError,
     audio |-> Audio(NoRate, Device(None))]

Threads == {"t1", "t2"}

IdleThread ==
    [pc |-> "idle", calls |-> 0, checkpoint |-> None, gpu |-> None,
     saw |-> CacheKey(InitProc), error |-> None]

\* misses: cache tests that found no matching entry; loads: checkpoints
\* read; builtFor: the identity of the call that assigned from_audio.model;
\* tornSeen: a test or a forward pass met a model whose key fields were
\* missing or those of another identity
InitConc ==
    [misses |-> 0, loads |-> 0, builtFor |-> <<Unset, Unset>>,
     requested |-> {}, tornSeen |-> FALSE]

Init ==
    /\ proc = InitProc
    /\ last = NoCall
    /\ hist = InitHist
    /\ disk = <<>>
    /\ batch = NoBatch
    /\ enc = InitEnc
    /\ rs = NoResample
    /\ th = [t \in Threads |-> IdleThread]
    /\ cc = InitConc

Has(events, e) == \E i \in DOMAIN events : events[i] = e
Count(events, e) == Cardinality({i \in DOMAIN events : events[i] = e})

\* The record of the calls, per identity: the calls seen, whether one raised,
\* the module objects their forward passes ran on, the constructions run (the
\* checkpoint was read) and completed (the cache entry was stored), and the
\* identity changes: calls whose (checkpoint, gpu) is not that of the last
\* completed construction.
Record(h, model, checkpoint, gpu, r) ==
    LET id == <<checkpoint, gpu>>
    IN  [calls     |-> h.calls + 1,
         seen      |-> Add(h.seen, id, 1),
         failed    |-> h.failed \cup (IF r.error = NoError THEN {} ELSE {id}),
         served    |-> h.served \cup (IF r.used = None THEN {} ELSE {<<id, r.used>>}),
         runs      |-> Add(h.runs, id, Count(r.events, "torch.load")),
         completed |-> Add(h.completed, id, Count(r.events, "store")),
         changes   |-> Add(h.changes, id, IF h.current # id THEN 1 ELSE 0),
         current   |-> IF Has(r.events, "store") THEN id ELSE h.current,
         instance  |-> IF Has(r.events, "store") THEN ResolveModel(model)
                       ELSE h.instance]

\* a caller invokes ppgs.from_audio(audio, sample_rate, model, checkpoint, gpu=gpu)
FromAudio ==
    /\ hist.calls < MaxCalls
    /\ \E audio \in {"x", "nofeat"}, model \in ModelArgs,
          checkpoint \in Checkpoints, gpu \in Gpus :
          LET r == from_audio(proc, audio, model, checkpoint, gpu)
          IN  /\ proc' = r.proc
              /\ last' = [op |-> "from_audio", audio |-> audio, model |-> model,
                          checkpoint |-> checkpoint, gpu |-> gpu,
                          pre |-> CacheKey(proc), events |-> r.events,
                          first |-> r.first, error |-> r.error,
                          result |-> r.result, used |-> r.used]
              /\ hist' = Record(hist, model, checkpoint, gpu, r)
              /\ UNCHANGED <<disk, batch, enc, rs, th, cc>>

Next == FromAudio

Spec == Init /\ [][Next]_vars

\* ------------------------------------------------------------ the batch run
\* all lists over S of length at most n
Lists(S, n) == UNION {[1..m -> S] : m \in 0..n}

\* The command line (__main__.py) runs one batch in a process: the path
\* lists, with output paths given or not, a checkpoint and a gpu.
FromFilesToFiles ==
    /\ batch.op = None
    /\ \E audio_files \in Lists(AudioFiles, MaxFiles),
          explicit \in BOOLEAN,
          output_files \in Lists(OutputFiles, MaxFiles),
          checkpoint \in Checkpoints, gpu \in Gpus :
          /\ explicit \/ output_files = <<>>
          /\ LET r == from_files_to_files(proc, disk, audio_files, explicit,
                                          output_files, checkpoint, gpu)
             IN  /\ proc' = r.proc
                 /\ disk' = r.disk
                 /\ batch' = [op |-> "from_files_to_files",
                              audio_files |-> audio_files, explicit |-> explicit,
                              output_files |-> output_files,
                              checkpoint |-> checkpoint, gpu |-> gpu,
                              steps |-> r.steps, error |-> r.error]
          /\ UNCHANGED <<last, hist, enc, rs, th, cc>>

NextBatch == FromFilesToFiles

SpecBatch == Init /\ [][NextBatch]_vars

\* ------------------------------------------------------- resampling calls
\* a caller invokes ppgs.resample(audio, sample_rate, target_rate)
Resample ==
    /\ rs.calls < MaxResamples
    /\ \E sample_rate \in Rates, target_rate \in Rates,
          device \in {Device(None), Device("0")} :
          LET r == resample(Audio(sample_rate, device), sample_rate, target_rate)
          IN  rs' = [calls |-> rs.calls + 1, op |-> "resample",
                     sample_rate |-> sample_rate, target_rate |-> target_rate,
                     gpu |-> None, pre |-> enc, events |-> r.events,
                     error |-> r.error, audio |-> r.audio]
    /\ UNCHANGED <<proc, last, hist, disk, batch, enc, th, cc>>

\* a caller invokes ppgs.preprocess.encodec.from_audios(audio, lengths, sample_rate, gpu)
EncodecFromAudios ==
    /\ rs.calls < MaxResamples
    /\ \E sample_rate \in Rates, gpu \in Gpus :
          LET r == from_audios(enc, Audio(sample_rate, Device(None)), sample_rate, gpu)
          IN  /\ enc' = r.enc
              /\ rs' = [calls |-> rs.calls + 1, op |-> "from_audios",
                        sample_rate |-> sample_rate, target_rate |-> EncodecRate,
                        gpu |-> gpu, pre |-> enc, events |-> r.events,
                        error |-> r.error, audio |-> r.audio]
    /\ UNCHANGED <<proc, last, hist, disk, batch, th, cc>>

NextResample == Resample \/ EncodecFromAudios

SpecResample == Init /\ [][NextResample]_vars

\* ------------------------------------------ from_audio called from threads
\* Threads of one process call from_audio with the default model and no lock;
\* the interpreter may switch threads between any two statements. A step is
\* one statement of from_audio (the cache test is taken as one step).
others == <<last, hist, disk, batch, enc, rs>>

\* the cache holds a model, but its key is missing or is not the identity
\* the model was assigned for
Torn ==
    /\ proc.model # Unset
    /\ \/ proc.checkpoint = Unset
       \/ proc.gpu = Unset
       \/ <<proc.checkpoint, proc.gpu>> # cc.builtFor

\* a thread enters from_audio(audio, sample_rate, checkpoint=checkpoint, gpu=gpu)
Call(t) ==
    /\ th[t].pc \in {"idle", "done"}
    /\ th[t].calls < MaxThreadCalls
    /\ \E checkpoint \in {"a.pt", "d.pt"}, gpu \in {None} :
          /\ th' = [th EXCEPT ![t] = [pc |-> "test", calls |-> @.calls + 1,
                                      checkpoint |-> checkpoint, gpu |-> gpu,
                                      saw |-> CacheKey(InitProc), error |-> None]]
          /\ cc' = [cc EXCEPT !.requested = @ \cup {<<checkpoint, gpu>>}]
    /\ UNCHANGED <<proc, others>>

\* the cache test
Test(t) ==
    /\ th[t].pc = "test"
    /\ LET check == CacheCheck(proc, th[t].checkpoint, th[t].gpu)
       IN  /\ th' = [th EXCEPT ![t].saw = CacheKey(proc),
                               ![t].pc = CASE check = "miss" -> "load"
                                           [] check = "hit" -> "infer"
                                           [] OTHER -> "done",
                               ![t].error = IF check = "AttributeError"
                                            THEN "AttributeError" ELSE None]
           /\ cc' = [cc EXCEPT !.misses = @ + (IF check = "miss" THEN 1 ELSE 0),
                               !.tornSeen = @ \/ Torn]
    /\ UNCHANGED <<proc, others>>

\* torch.load and the binding with its handler
LoadAndBind(t) ==
    /\ th[t].pc = "load"
    /\ LET b == Bind(proc.weights[DefaultModel], th[t].checkpoint)
       IN  /\ proc' = [proc EXCEPT !.weights[DefaultModel] = b.weights]
           /\ th' = [th EXCEPT ![t].pc = IF b.error = NoError THEN "to" ELSE "done",
                               ![t].error = b.error.type]
    /\ cc' = [cc EXCEPT !.loads = @ + 1]
    /\ UNCHANGED others

\* (mutant) the model and its key are assigned in one step
SetModelAndKey(t) ==
    /\ th[t].pc = "to"
    /\ IF CanPlace(th[t].gpu)
       THEN /\ proc' = [proc EXCEPT !.device[DefaultModel] = Device(th[t].gpu),
                                    !.model = DefaultModel,
                                    !.checkpoint = th[t].checkpoint,
                                    !.gpu = th[t].gpu]
            /\ th' = [th EXCEPT ![t].pc = "set_checkpoint"]
            /\ cc' = [cc EXCEPT !.builtFor = <<th[t].checkpoint, th[t].gpu>>]
       ELSE /\ th' = [th EXCEPT ![t].pc = "done", ![t].error = "RuntimeError"]
            /\ UNCHANGED <<proc, cc>>
    /\ UNCHANGED others

\* from_audio.model = model.to(device)
SetModel(t) ==
    /\ th[t].pc = "to"
    /\ IF CanPlace(th[t].gpu)
       THEN /\ proc' = [proc EXCEPT !.device[DefaultModel] = Device(th[t].gpu),
                                    !.model = DefaultModel]
            /\ th' = [th EXCEPT ![t].pc = "set_checkpoint"]
            /\ cc' = [cc EXCEPT !.builtFor = <<th[t].checkpoint, th[t].gpu>>]
       ELSE /\ th' = [th EXCEPT ![t].pc = "done", ![t].error = "RuntimeError"]
            /\ UNCHANGED <<proc, cc>>
    /\ UNCHANGED others

\* from_audio.checkpoint = checkpoint
SetCheckpoint(t) ==
    /\ th[t].pc = "set_checkpoint"
    /\ proc' = [proc EXCEPT !.checkpoint = th[t].checkpoint]
    /\ th' = [th EXCEPT ![t].pc = "set_gpu"]
    /\ UNCHANGED <<cc, others>>

\* from_audio.gpu = gpu
SetGpu(t) ==
    /\ th[t].pc = "set_gpu"
    /\ proc' = [proc EXCEPT !.gpu = th[t].gpu]
    /\ th' = [th EXCEPT ![t].pc = "infer"]
    /\ UNCHANGED <<cc, others>>

\* the preprocessing and the forward pass on from_audio.model
Forward(t) ==
    /\ th[t].pc = "infer"
    /\ th' = [th EXCEPT ![t].pc = "done"]
    /\ cc' = [cc EXCEPT !.tornSeen = @ \/ Torn]
    /\ UNCHANGED <<proc, others>>

NextConc ==
    \E t \in Threads :
        \/ Call(t)
        \/ Test(t)
        \/ LoadAndBind(t)
        \/ SetModel(t)
        \/ SetCheckpoint(t)
        \/ SetGpu(t)
        \/ Forward(t)

SpecConc == Init /\ [][NextConc]_vars

\* ------------------------------------------------------------------ claims
IndexOf(events, e) == CHOOSE i \in DOMAIN events : events[i] = e
Before(events, a, b) ==
    Has(events, a) /\ Has(events, b) /\ IndexOf(events, a) < IndexOf(events, b)

LastMiss ==
    \/ last.pre.model = Unset
    \/ last.pre.checkpoint # last.checkpoint
    \/ last.pre.gpu # last.gpu

LastId == <<last.checkpoint, last.gpu>>

\* C1 (as stated): construction runs exactly once per distinct (checkpoint,
\* gpu) identity encountered, and all calls with one identity get one
\* instance. Stated for the identities none of whose calls raised, so that
\* only a construction repeated after it had succeeded refutes it.
C1_OncePerDistinctIdentity ==
    \A id \in DOMAIN hist.seen \ hist.failed :
        /\ Get(hist.runs, id) = 1
        /\ Cardinality({m \in Models : <<id, m>> \in hist.served}) <= 1

\* C1 (amended): construction runs exactly once per identity change, that is
\* once for every call whose (checkpoint, gpu) is not the identity of the last
\* completed construction, and not at all for a call that repeats it; every
\* forward pass runs on the instance stored by the last completed
\* construction, which was built for the identity of the call.
C1_OncePerIdentityChange ==
    /\ \A id \in Identities :
          /\ Get(hist.runs, id) = Get(hist.changes, id)
          /\ Get(hist.completed, id) <= Get(hist.runs, id)
    /\ last.used # None =>
          /\ hist.current = LastId
          /\ last.used = hist.instance

\* an identity that came back after another one was constructed a second time
C1_Witness ==
    /\ \E id \in Identities : Get(hist.completed, id) = 2 /\ Get(hist.seen, id) = 2
    /\ last.used # None

\* C2: a call constructs (torch.load, load_state_dict, model.to) iff nothing
\* is cached or its checkpoint or gpu differs from the cached ones; on a hit
\* the forward pass runs on the cached instance and nothing is loaded; on a
\* change the new entry is stored before the forward pass of the same call.
C2_ConstructIffChanged ==
    last.op = "from_audio" =>
        /\ Has(last.events, "torch.load") <=> LastMiss
        /\ ~LastMiss =>
              /\ ~Has(last.events, "load_state_dict")
              /\ ~Has(last.events, "model.to")
              /\ ~Has(last.events, "store")
              /\ CacheKey(proc) = last.pre
              /\ Has(last.events, "forward") => last.used = last.pre.model
        /\ (LastMiss /\ Has(last.events, "forward")) =>
              /\ Before(last.events, "torch.load", "load_state_dict")
              /\ Before(last.events, "load_state_dict", "model.to")
              /\ Before(last.events, "model.to", "store")
              /\ Before(last.events, "store", "forward")
              /\ CacheKey(proc) = [model      |-> ResolveModel(last.model),
                                   checkpoint |-> last.checkpoint,
                                   gpu        |-> last.gpu]
              /\ last.used = ResolveModel(last.model)

\* a call that changed only the gpu of a populated cache and ran the network
C2_Witness ==
    /\ last.op = "from_audio"
    /\ last.pre.model # Unset
    /\ last.pre.checkpoint = last.checkpoint
    /\ last.pre.gpu # last.gpu
    /\ Has(last.events, "forward")

\* the state a checkpoint holds is the model's own names under the prefix
IsDdpState(state_dict) ==
    /\ DOMAIN state_dict = {<<DdpPrefix>> \o k : k \in Params}
    /\ \A k \in DOMAIN state_dict : state_dict[k].shape = ParamShape

\* C3: when the first binding fails on the parameter names, the prefix remap
\* is applied once and the binding retried once (two bindings in all, the
\* remap between them); a state that is the model's names under the prefix is
\* bound by that retry: the module then holds the checkpoint's tensors.
C3_RemapRetriedOnce ==
    (last.op = "from_audio" /\ last.first \cap KeyProblems # {}) =>
        /\ Count(last.events, "ddp_to_single_state_dict") = 1
        /\ Count(last.events, "load_state_dict") = 2
        /\ last.events[2] = "load_state_dict"
        /\ last.events[3] = "ddp_to_single_state_dict"
        /\ last.events[4] = "load_state_dict"
        /\ IsDdpState(TorchLoad(last.checkpoint)) =>
              /\ Has(last.events, "model.to")
              /\ \A k \in Params :
                    proc.weights[ResolveModel(last.model)][k]
                        = TorchLoad(last.checkpoint)[<<DdpPrefix>> \o k].val

\* a checkpoint saved under the prefix was bound by the retry and the call
\* went on to the forward pass
C3_Witness ==
    /\ last.op = "from_audio"
    /\ IsDdpState(TorchLoad(last.checkpoint))
    /\ last.first \cap KeyProblems # {}
    /\ last.error = NoError
    /\ Has(last.events, "forward")

\* the retry of the binding failed too
LastRetryFailed ==
    /\ last.op = "from_audio"
    /\ Count(last.events, "load_state_dict") = 2
    /\ ~Has(last.events, "model.to")

\* C4 (as stated): when the retry fails too, the call raises
\* CheckpointIncompatibleError, which carries the first failure and the retry's.
C4_IncompatibleErrorWithBothCauses ==
    LastRetryFailed =>
        /\ last.error.type = "CheckpointIncompatibleError"
        /\ last.error.context = last.first
        /\ last.error.problems # {}

\* C5 (as stated): the remap and retry happen only after a failure on the
\* parameter names; any other failure of the first binding leaves the call at
\* once, with no remap and no second binding.
C5_RetryOnlyOnNameMismatch ==
    (last.op = "from_audio" /\ last.first # {} /\ last.first \cap KeyProblems = {}) =>
        /\ ~Has(last.events, "ddp_to_single_state_dict")
        /\ Count(last.events, "load_state_dict") = 1
        /\ last.error.problems = last.first

\* the output list the run pairs the inputs with: as given, or derived
BatchOutputs ==
    IF batch.explicit THEN batch.output_files
    ELSE [i \in DOMAIN batch.audio_files |-> with_suffix(batch.audio_files[i], ".pt")]

\* the positions that hold a pair: present in both lists
PairPositions == 1..Min(Len(batch.audio_files), Len(BatchOutputs))

Attempts(i) == Cardinality({n \in DOMAIN batch.steps : batch.steps[n].pos = i})
Saved(step) == Has(step.events, "torch.save")

\* the last step that wrote the file at the path of step n is step n itself
LastWriter(n) ==
    \A m \in DOMAIN batch.steps :
        (m > n /\ Saved(batch.steps[m])) => batch.steps[m].output # batch.steps[n].output

\* C6 (as stated): explicit output paths whose number differs from the number
\* of input paths make the call fail with ArityMismatchError before any pair
\* is processed: no audio loaded, no model loaded, no file written.
C6_ArityMismatchFailsFast ==
    (/\ batch.op # None
     /\ batch.explicit
     /\ Len(batch.output_files) # Len(batch.audio_files)) =>
        /\ batch.error.type = "ArityMismatchError"
        /\ batch.steps = <<>>
        /\ DOMAIN disk = {}
        /\ proc = InitProc

\* C7 (as stated): every pair is attempted exactly once, and the output
\* written for position i is computed from the input at position i.
C7_EveryPairExactlyOnce ==
    batch.op # None =>
        /\ \A i \in PairPositions : Attempts(i) = 1
        /\ \A n \in DOMAIN batch.steps :
              Saved(batch.steps[n]) =>
                  batch.steps[n].input = batch.audio_files[batch.steps[n].pos]

\* C7 (amended): the pairs are attempted in list order, each at most once and
\* none after a pair that raised; when no pair raises every pair is attempted
\* exactly once; the tensor written for position i goes to the output path at
\* position i and is computed from the input at position i.
C7_PairsInOrderOnceUntilFailure ==
    batch.op # None =>
        /\ Len(batch.steps) <= Cardinality(PairPositions)
        /\ \A n \in DOMAIN batch.steps :
              /\ batch.steps[n].pos = n
              /\ batch.steps[n].input = batch.audio_files[n]
              /\ batch.steps[n].output = BatchOutputs[n]
              /\ n < Len(batch.steps) => batch.steps[n].error = NoError
              /\ (Saved(batch.steps[n]) /\ LastWriter(n)) =>
                    /\ batch.steps[n].output \in DOMAIN disk
                    /\ disk[batch.steps[n].output].audio
                          = load_audio(batch.audio_files[n]).audio
        /\ batch.error = NoError =>
              \A i \in PairPositions : Attempts(i) = 1 /\ Saved(batch.steps[i])

\* a run of two pairs with different inputs and outputs that wrote both files
C7_Witness ==
    /\ batch.op # None
    /\ batch.error = NoError
    /\ Len(batch.steps) = 2
    /\ batch.audio_files[1] # batch.audio_files[2]
    /\ BatchOutputs[1] # BatchOutputs[2]
    /\ disk[BatchOutputs[1]].audio = "x"
    /\ disk[BatchOutputs[2]].audio = "y"

\* C10: when pair i fails, the error leaves from_files_to_files, nothing is
\* written for pair i, no pair after i is attempted and every pair before i
\* was saved; a run that returns normally has saved every pair it was given.
C10_FailFastNoFalseSuccess ==
    batch.op # None =>
        LET k == Len(batch.steps)
        IN  /\ batch.error # NoError =>
                  /\ k >= 1
                  /\ batch.steps[k].error = batch.error
                  /\ ~Saved(batch.steps[k])
                  /\ \A n \in 1..(k - 1) :
                        /\ batch.steps[n].error = NoError
                        /\ Saved(batch.steps[n])
                        /\ batch.steps[n].output \in DOMAIN disk
                  /\ \A i \in PairPositions : i > k => Attempts(i) = 0
                  /\ (\A n \in 1..(k - 1) :
                         batch.steps[n].output # batch.steps[k].output)
                        => batch.steps[k].output \notin DOMAIN disk
            /\ \A n \in DOMAIN batch.steps :
                  batch.steps[n].error # NoError => batch.error = batch.steps[n].error
            /\ DOMAIN disk = {batch.steps[n].output :
                                 n \in {m \in DOMAIN batch.steps : Saved(batch.steps[m])}}

\* the second of three pairs failed: the first was saved, the third not tried
C10_Witness ==
    /\ batch.op # None
    /\ Cardinality(PairPositions) = 3
    /\ Len(batch.steps) = 2
    /\ batch.error # NoError
    /\ DOMAIN disk = {batch.steps[1].output}
    /\ batch.steps[2].output # batch.steps[1].output

\* C8 (as stated): a transform is built only when none is cached or the rate
\* of the call differs from the rate the cached transform was built for; a
\* call that repeats the rate reuses the cached transform; a call never puts
\* its audio through a transform built for another source rate.
C8_TransformMatchesSourceRate ==
    rs.op # None =>
        /\ (rs.op = "from_audios" /\ Has(rs.events, "Resample")) =>
              \/ rs.pre.resampler = NoTransform
              \/ rs.pre.resampler.orig_freq # rs.sample_rate
        /\ (/\ rs.op = "from_audios"
            /\ rs.pre.resampler # NoTransform
            /\ rs.pre.resampler.orig_freq = rs.sample_rate) =>
              /\ ~Has(rs.events, "Resample")
              /\ enc.resampler = rs.pre.resampler
        /\ Has(rs.events, "resampler") /\ rs.error = NoError =>
              rs.audio.through = rs.sample_rate

\* the threads that are between their cache test and their last assignment
Constructing == {t \in Threads : th[t].pc \in {"load", "to", "set_checkpoint", "set_gpu"}}

LoadedFrom(checkpoint) == Bind(InitWeights, checkpoint).weights

\* the call hit the cache and its forward pass returned
LastHit ==
    /\ last.op = "from_audio"
    /\ last.events = <<"preprocess", "forward">>
    /\ last.error = NoError

\* C11 (as stated): whenever from_audio holds a cached model, its key
\* (from_audio.checkpoint, from_audio.gpu) names the checkpoint the model's
\* parameters were loaded from and the device it resides on, also after
\* calls whose reconstruction raised part-way; so a call that hits the cache
\* runs the forward pass on the weights of the checkpoint it asked for, on
\* the device it asked for.
C11_KeyDescribesCachedModel ==
    /\ proc.model # Unset =>
          /\ proc.weights[proc.model] = LoadedFrom(proc.checkpoint)
          /\ proc.device[proc.model] = Device(proc.gpu)
    /\ LastHit =>
          /\ last.result.weights = LoadedFrom(last.checkpoint)
          /\ last.result.device = Device(last.gpu)

\* C12 (as stated): whenever a call of encodec from_audios applies the cached
\* resampler or the cached EnCodec model, that object resides on the device
\* chosen by the call's gpu argument, the device the audio was moved to (a
\* resampler for equal rates holds no kernel and resides nowhere).
C12_CachedObjectsOnCallDevice ==
    rs.op = "from_audios" =>
        /\ (Has(rs.events, "resampler") /\ HasKernel(enc.resampler)) =>
              enc.resampler.device = Device(rs.gpu)
        /\ Has(rs.events, "encode") => enc.model = Device(rs.gpu)

====
